---- MODULE Spec2Model ----
(***************************************************************************)
(* A model of @rbxts/crate's update engine (src/src/index.ts, lines        *)
(* 37-352): the promise queue (enqueue / stepQueue), the recursive diff    *)
(* pass of update() (apply), the shallow state commit, the diff signal,   *)
(* the selector snapshot and re-evaluation, middleware, and cleanup().     *)
(***************************************************************************)
EXTENDS Integers, Sequences, FiniteSets, TLC

(***************************************************************************)
(* Bounds of the model.                                                    *)
(***************************************************************************)
\* The number of update() calls that are given a queue entry in one run.
MaxUpdates == 3

(***************************************************************************)
(* Values.  A Luau value is a tagged record: a number, a table that is a   *)
(* dictionary ("map", keys are strings), a table that is a non-empty       *)
(* array ("arr"), nil, or a function (only inside payloads).  The empty    *)
(* table is MapV(<<>>): Luau cannot tell an empty array from an empty      *)
(* dictionary.  Err stands for a raised error.                             *)
(***************************************************************************)
IntV(n) == [t |-> "int", n |-> n]

MapV(m) == [t |-> "map", m |-> m]

ArrV(a) == [t |-> "arr", a |-> a]

FnV(f) == [t |-> "fn", f |-> f]

Nil == [t |-> "nil"]

Err == [t |-> "err"]

\* typeIs(value, "table")
IsTable(v) == v.t \in {"map", "arr"}

\* Sift.Array.is: a table with a positive length and no other keys.
ArrayIs(v) == v.t = "arr" /\ Len(v.a) > 0

\* Sift.Array.equals(a, b) for two arguments: both tables of the same length
\* with pairwise equal elements; a dictionary has length 0.
ArrayEquals(a, b) ==
    IF ~IsTable(a) \/ ~IsTable(b) THEN a = b
    ELSE LET la == IF a.t = "arr" THEN Len(a.a) ELSE 0
             lb == IF b.t = "arr" THEN Len(b.a) ELSE 0
         IN  la = lb /\ (la > 0 => a.a = b.a)

\* pointer[key]: indexing a dictionary gives the field or nil, indexing an
\* array with a string key gives nil, indexing nil or a number raises.
Index(ptr, k) ==
    IF ptr.t = "map" THEN (IF k \in DOMAIN ptr.m THEN ptr.m[k] ELSE Nil)
    ELSE IF ptr.t = "arr" THEN Nil
    ELSE Err

\* a !== b of Luau: numbers and nil by value, tables by reference.  A table
\* of a payload and a table of the state are never the same object.
NotSame(a, b) == IF IsTable(a) /\ IsTable(b) THEN TRUE ELSE a # b

(***************************************************************************)
(* The functions a caller passes in: transformers, middleware, selectors.  *)
(***************************************************************************)
Transformers == {"add1", "add5", "same", "drop", "boom"}

\* (v) => v + 1, (v) => v + 5, (v) => v, (v) => undefined, and a transformer
\* that throws.
CallTransformer(f, cur) ==
    CASE f = "add1" -> (IF cur.t = "int" THEN IntV(cur.n + 1) ELSE Err)
      [] f = "add5" -> (IF cur.t = "int" THEN IntV(cur.n + 5) ELSE Err)
      [] f = "same" -> cur
      [] f = "drop" -> Nil
      [] OTHER -> Err

Middlewares == {"clamp"}

\* (oldValue, newValue) => math.min(newValue, 1)
CallMiddleware(mw, old, new) ==
    IF new.t = "int" THEN (IF new.n > 1 THEN IntV(1) ELSE new) ELSE Err

Selectors == {"statsCoins", "state"}

\* (s) => s.stats.coins, (s) => s.stats.gems, the identity selector of
\* onUpdate(callback), and (s) => { assert(s.coins < 2); return s.coins }, a
\* selector that throws on some states.
Select(sel, st) ==
    CASE sel = "statsCoins" ->
             (IF Index(st, "stats") = Err \/ Index(st, "stats") = Nil THEN Err
              ELSE Index(Index(st, "stats"), "coins"))
      [] sel = "statsGems" ->
             (IF Index(st, "stats") = Err \/ Index(st, "stats") = Nil THEN Err
              ELSE Index(Index(st, "stats"), "gems"))
      [] sel = "coinsBelow2" ->
             (IF Index(st, "coins").t = "int" /\ Index(st, "coins").n < 2
              THEN Index(st, "coins") ELSE Err)
      [] OTHER -> st

(***************************************************************************)
(* The diff pass: apply (index.ts 137-194) as a function of the payload,   *)
(* the pointer into the state and the middleware table.  The pass never    *)
(* writes to the state, so every key is decided on its own.                *)
(***************************************************************************)
\* The level a call of apply() gets when none is passed (level = 0).
DefaultLevel == 0

\* What the recursive call apply(value) of line 166 passes as level: nothing.
NestedLevel(level) == DefaultLevel

RECURSIVE Apply(_, _, _, _, _, _)

\* The only element of a one-element set.  { F(x) : x \in {e} } evaluates e
\* once and hands its value to F.
One(S) == CHOOSE x \in S : TRUE

ApplyFail(k) == [key |-> k, err |-> TRUE, changed |-> FALSE, has |-> FALSE,
                 d |-> Nil, o |-> Nil, calls |-> {}]

ApplySame(k, v0, calls) ==
    [key |-> k, err |-> FALSE, changed |-> FALSE, has |-> FALSE, d |-> Nil,
     o |-> v0, calls |-> calls]

\* The comparison of the primitive branch (line 185): the current value
\* against obj[key], the payload's entry as written by the caller.
PrimitiveDiffers(cur, v0, value) == NotSame(cur, v0)

\* The nested-table branch (lines 156-177) once apply(value) has returned
\* sub.
ApplyNested(k, v0, calls, sub) ==
    IF sub.err THEN ApplyFail(k)
    ELSE [key |-> k, err |-> FALSE, changed |-> sub.changed,
          has |-> sub.changed, d |-> MapV(sub.diff),
          o |-> IF v0.t = "map" THEN MapV(sub.obj) ELSE v0,
          calls |-> calls \cup sub.calls]

\* The three branches of the loop body (lines 156-190) for the final
\* candidate value and the current value cur = pointer[key].
ApplyBranch(k, v0, value, cur, calls, level, depth, st, mws) ==
    IF value = Err \/ cur = Err THEN ApplyFail(k)
    ELSE IF IsTable(value) /\ ~ArrayIs(value) THEN
        One({ ApplyNested(k, v0, calls, sub) :
                sub \in {Apply(value.m, NestedLevel(level), depth + 1, cur,
                               st, mws)} })
    ELSE IF IsTable(value) THEN
        IF ~ArrayEquals(value, cur)
        THEN [key |-> k, err |-> FALSE, changed |-> TRUE, has |-> TRUE,
              d |-> value, o |-> value, calls |-> calls]
        ELSE ApplySame(k, v0, calls)
    ELSE IF PrimitiveDiffers(cur, v0, value)
        THEN [key |-> k, err |-> FALSE, changed |-> TRUE, has |-> value # Nil,
              d |-> value, o |-> value, calls |-> calls]
        ELSE ApplySame(k, v0, calls)

\* The middleware step (lines 149-154) for the value v1 the transformer step
\* left.
ApplyMiddleware(k, v0, v1, cur, level, depth, st, mws) ==
    IF level = 0 /\ k \in DOMAIN mws /\ v1 # Err
    THEN One({ ApplyBranch(k, v0, value, cur,
                           {[key |-> k, depth |-> depth, old |-> Index(st, k),
                             new |-> v1, res |-> value]},
                           level, depth, st, mws) :
                 value \in {CallMiddleware(mws[k], Index(st, k), v1)} })
    ELSE ApplyBranch(k, v0, v1, cur, {}, level, depth, st, mws)

\* The transformer step (lines 143-146) for the payload entry v0.
ApplyTransformer(k, v0, cur, level, depth, st, mws) ==
    One({ ApplyMiddleware(k, v0, v1, cur, level, depth, st, mws) :
            v1 \in {IF v0.t = "fn"
                    THEN (IF cur = Err THEN Err ELSE CallTransformer(v0.f, cur))
                    ELSE v0} })

\* One iteration of the loop of apply (lines 140-191) for key k with the
\* payload entry v0.
ApplyKey(v0, k, level, depth, ptr, st, mws) ==
    One({ ApplyTransformer(k, v0, cur, level, depth, st, mws) :
            cur \in {Index(ptr, k)} })

\* What apply returns and leaves behind, from the results rs of its
\* iterations.
ApplyResult(obj, rs) ==
    IF \E r \in rs : r.err
    THEN [err |-> TRUE, changed |-> FALSE, diff |-> <<>>, obj |-> obj,
          calls |-> {}]
    ELSE [err     |-> FALSE,
          changed |-> \E r \in rs : r.changed,
          diff    |-> [k \in {r.key : r \in {x \in rs : x.has}} |->
                          (CHOOSE r \in rs : r.key = k).d],
          obj     |-> [k \in {r.key : r \in {x \in rs : x.o # Nil}} |->
                          (CHOOSE r \in rs : r.key = k).o],
          calls   |-> UNION {r.calls : r \in rs}]

\* apply(obj, level): whether anything changed, the diff written at this
\* level, the payload as the pass leaves it, the middleware calls made.
Apply(obj, level, depth, ptr, st, mws) ==
    One({ ApplyResult(obj, rs) :
            rs \in {{ApplyKey(obj[k], k, level, depth, ptr, st, mws) :
                        k \in DOMAIN obj}} })

\* A commit that writes nothing.
CommitNothing(st, diff) == st

\* this.state = { ...this.state, ...diff } (line 198): a spread of the top
\* level only.
Commit(st, diff) ==
    MapV([k \in DOMAIN st.m \cup DOMAIN diff |->
             IF k \in DOMAIN diff THEN diff[k] ELSE st.m[k]])

(***************************************************************************)
(* Selector comparison (index.ts 214-220).                                 *)
(***************************************************************************)
\* Sift.Dictionary.equals(a, b): a shallow comparison of two tables; fields
\* that hold tables are compared by reference.  The tables compared here
\* are whole states, whose table fields are the same object exactly when no
\* commit replaced the key in between (equal stamps).
DictEquals(a, b, sa, sb) ==
    /\ a.t = "map" /\ b.t = "map"
    /\ DOMAIN a.m = DOMAIN b.m
    /\ \A k \in DOMAIN a.m :
          IF IsTable(a.m[k]) \/ IsTable(b.m[k])
          THEN IsTable(a.m[k]) /\ IsTable(b.m[k]) /\ sa[k] = sb[k]
          ELSE a.m[k] = b.m[k]

\* hasChanged of the selector loop, for the result now and the value fetched
\* from the snapshot.
SelectorChanged(result, fetch, sNow, sThen) ==
    IF ArrayIs(result) /\ ArrayIs(fetch) THEN ~ArrayEquals(result, fetch)
    ELSE IF IsTable(result) /\ IsTable(fetch)
         THEN ~DictEquals(result, fetch, sNow, sThen)
         ELSE result # fetch

(***************************************************************************)
(* The inputs of the model: the state the crate is constructed with and    *)
(* the payloads its callers pass to update().                              *)
(***************************************************************************)
InitState ==
    MapV([coins |-> IntV(0),
          stats |-> MapV([coins |-> IntV(0), gems |-> IntV(0)]),
          items |-> ArrV(<<1>>)])

Payloads ==
    { <<>>,
      [coins |-> IntV(2)],
      [coins |-> FnV("same")],
      [coins |-> FnV("boom")],
      [stats |-> MapV([coins |-> IntV(2)])],
      [stats |-> MapV([coins |-> FnV("add1")])],
      [items |-> ArrV(<<2>>)] }

MiddlewareKeys == {"coins"}

(***************************************************************************)
(* The state of one Crate.                                                 *)
(***************************************************************************)
VARIABLES
    state,              \* this.state
    stamp,              \* per top-level key: the update that made its table (0: none)
    enabled,            \* this.enabled
    queue,              \* this.queue: the entries not yet dequeued
    queueInProgress,    \* this.queueInProgress
    middlewareMethods,  \* this.middlewareMethods
    updateSelectors,    \* this.updateSelectors
    updateConns,        \* the selectors with a callback connected to updateSignal
    diffConns,          \* whether a callback is connected to diffSignal
    pc,                 \* where the dequeued task and its promise chain stand
    cycle,              \* the update cycle of the task dequeued last
    handle,             \* per update() call: the promise it returned
    nextId,             \* the number the next update() call gets
    runLog,             \* the tasks started, in order
    diffLog,            \* the tasks whose diff was fired, in order
    lastError           \* the call whose assertion failed last, or "none"

vars == <<state, stamp, enabled, queue, queueInProgress, middlewareMethods,
          updateSelectors, updateConns, diffConns, pc, cycle, handle, nextId,
          runLog, diffLog, lastError>>

NoCycle ==
    [id |-> 0, data |-> <<>>, mws |-> <<>>, snap |-> <<>>, snapStamp |-> <<>>,
     pre |-> Nil, ok |-> TRUE, changed |-> FALSE, diff |-> <<>>,
     diffHeard |-> FALSE, selHeard |-> {}, calls |-> {}, live |-> TRUE,
     copy |-> FALSE, objAfter |-> <<>>]

\* constructor (index.ts 55-60)
Init ==
    /\ state = InitState
    /\ stamp = [k \in DOMAIN InitState.m |-> 0]
    /\ enabled = TRUE
    /\ queue = <<>>
    /\ queueInProgress = FALSE
    /\ middlewareMethods = <<>>
    /\ updateSelectors = {}
    /\ updateConns = {}
    /\ diffConns = FALSE
    /\ pc = "idle"
    /\ cycle = NoCycle
    /\ handle = [i \in 1..MaxUpdates |-> "none"]
    /\ nextId = 1
    /\ runLog = <<>>
    /\ diffLog = <<>>
    /\ lastError = "none"

(***************************************************************************)
(* The queue (index.ts 317-351) and the task of update() (128-226).        *)
(***************************************************************************)
\* An update() that never copies its payload.
CopiedNever(copy) == FALSE

\* if (copy) data = Sift.Dictionary.copyDeep(data) (lines 118-120): whether
\* the entry holds a table of its own.
Copied(copy) == copy

\* The payload the task of entry e goes through: the copy made at the call,
\* or the caller's table as it is when the task runs.
TaskData(e) == IF e.copied THEN e.data ELSE e.obj

\* The caller's table after the pass with result r: the pass writes its
\* values into the table it goes through (obj[key] = value, lines 182, 188).
PayloadAfter(e, r) == IF e.copied THEN e.obj ELSE r.obj

\* A queue that hands out its newest entry first.
QueueShiftLast(q) == [entry |-> q[Len(q)], rest |-> SubSeq(q, 1, Len(q) - 1)]

\* this.queue.shift() (line 325): the entry taken and the entries left.
QueueShift(q) == [entry |-> Head(q), rest |-> Tail(q)]

\* A task that reads the state the crate was constructed with, whatever has
\* been committed since.
TaskPointerStale(st) == InitState

\* pointer = this.state (line 129), the first statement of the task: st is
\* the state when the task starts.
TaskPointer(st) == st

\* A task that fires the diff signal before it has committed anything: the
\* listeners run on the state the task started with.
RunTaskFireFirst(e) ==
    \E r \in {Apply(TaskData(e), DefaultLevel, 0, state, state,
                    middlewareMethods)} :
    \E c \in {[NoCycle EXCEPT !.id = e.id, !.data = TaskData(e),
                              !.mws = middlewareMethods, !.snap = e.snap,
                              !.snapStamp = e.snapStamp, !.pre = state,
                              !.live = enabled, !.copy = e.copy,
                              !.objAfter = PayloadAfter(e, r)]} :
        /\ runLog' = Append(runLog, e.id)
        /\ UNCHANGED <<state, stamp>>
        /\ IF r.err
           THEN /\ cycle' = [c EXCEPT !.ok = FALSE]
                /\ pc' = "settle"
                /\ UNCHANGED diffLog
           ELSE /\ diffLog' = IF r.changed THEN Append(diffLog, e.id) ELSE diffLog
                /\ cycle' = [c EXCEPT !.changed = r.changed, !.diff = r.diff,
                                      !.calls = r.calls,
                                      !.diffHeard = r.changed /\ diffConns]
                /\ pc' = "notify"

\* The task up to diffSignal.Fire (lines 129-202): the diff pass, the commit
\* and the diff signal.  A throw inside the pass leaves the state alone and
\* rejects the task's promise.
RunTask(e) ==
    \E r \in {Apply(TaskData(e), DefaultLevel, 0, TaskPointer(state), state,
                    middlewareMethods)} :
    \E c \in {[NoCycle EXCEPT !.id = e.id, !.data = TaskData(e),
                              !.mws = middlewareMethods, !.snap = e.snap,
                              !.snapStamp = e.snapStamp, !.pre = state,
                              !.live = enabled, !.copy = e.copy,
                              !.objAfter = PayloadAfter(e, r)]} :
        /\ runLog' = Append(runLog, e.id)
        /\ IF r.err
           THEN /\ cycle' = [c EXCEPT !.ok = FALSE]
                /\ pc' = "settle"
                /\ UNCHANGED <<state, stamp, diffLog>>
           ELSE /\ state' = Commit(state, r.diff)
                /\ stamp' = [k \in DOMAIN state.m \cup DOMAIN r.diff |->
                                IF k \notin DOMAIN r.diff THEN stamp[k]
                                ELSE IF IsTable(r.diff[k]) THEN e.id ELSE 0]
                /\ diffLog' = IF r.changed THEN Append(diffLog, e.id) ELSE diffLog
                /\ cycle' = [c EXCEPT !.changed = r.changed, !.diff = r.diff,
                                      !.calls = r.calls,
                                      !.diffHeard = r.changed /\ diffConns]
                /\ pc' = "notify"

\* A stepQueue that never finds the queue busy.
StepQueueNeverBusy(recurse) == FALSE

\* if (this.queueInProgress && !recurse) return (lines 318-320)
StepQueueBusy(recurse) == queueInProgress /\ ~recurse

\* A stepQueue that leaves the flag as it is when it finds the queue empty.
StepQueueNoReset(recurse, q) ==
    IF StepQueueBusy(recurse)
    THEN /\ queue' = q
         /\ UNCHANGED <<queueInProgress, pc, cycle, state, stamp, runLog, diffLog>>
    ELSE IF Len(q) > 0
         THEN /\ queueInProgress' = TRUE
              /\ queue' = QueueShift(q).rest
              /\ RunTask(QueueShift(q).entry)
         ELSE /\ queue' = q
              /\ pc' = "idle"
              /\ cycle' = NoCycle
              /\ UNCHANGED <<queueInProgress, state, stamp, runLog, diffLog>>

\* stepQueue(recurse) (lines 317-334) on the queue q.
StepQueue(recurse, q) ==
    IF StepQueueBusy(recurse)
    THEN /\ queue' = q
         /\ UNCHANGED <<queueInProgress, pc, cycle, state, stamp, runLog, diffLog>>
    ELSE IF Len(q) > 0
         THEN /\ queueInProgress' = TRUE
              /\ queue' = QueueShift(q).rest
              /\ RunTask(QueueShift(q).entry)
         ELSE /\ queueInProgress' = FALSE
              /\ queue' = q
              /\ pc' = "idle"
              /\ cycle' = NoCycle
              /\ UNCHANGED <<state, stamp, runLog, diffLog>>

\* A call from outside the running task: between two steps of the promise
\* chain, or from a diff listener while the diff signal is being fired.
CanCall == pc # "notify" \/ cycle.diffHeard

\* An update() that does not look at this.enabled.
UpdateGuardNone == TRUE

\* assert(this.enabled, ...) of update() (line 115)
UpdateGuard == enabled

\* assert(this.enabled, ...) of getState() (line 267)
GetStateGuard == enabled

\* update(data, copy) (lines 114-128) with enqueue (341-351): the assertion, the
\* selector snapshot, the new entry, and stepQueue().
Update(data, copy) ==
    /\ CanCall
    /\ nextId <= MaxUpdates
    /\ lastError' = IF UpdateGuard THEN "none" ELSE "update"
    /\ IF ~UpdateGuard
       THEN UNCHANGED <<state, stamp, enabled, queue, queueInProgress,
                        middlewareMethods, updateSelectors, updateConns,
                        diffConns, pc, cycle, handle, nextId, runLog, diffLog>>
       ELSE LET snap == [s \in updateSelectors |-> Select(s, state)]
                e    == [id |-> nextId, data |-> data, snap |-> snap,
                         snapStamp |-> stamp, copy |-> copy,
                         copied |-> Copied(copy), obj |-> data]
            IN  /\ nextId' = nextId + 1
                /\ UNCHANGED <<enabled, middlewareMethods, updateSelectors,
                               updateConns, diffConns>>
                /\ IF \E s \in updateSelectors : snap[s] = Err
                   THEN /\ handle' = [handle EXCEPT ![nextId] = "rejected"]
                        /\ UNCHANGED <<state, stamp, queue, queueInProgress,
                                       pc, cycle, runLog, diffLog>>
                   ELSE /\ handle' = [handle EXCEPT ![nextId] = "pending"]
                        /\ StepQueue(FALSE, Append(queue, e))

\* The selector loop of the task (lines 204-225).  The loop goes through
\* the set of selectors in the order pairs() yields them, which the language
\* leaves open, and ends at the first selector that throws: the selectors in
\* before are those it reached.
Notify ==
    /\ pc = "notify"
    /\ LET fetch(s)  == IF s \in DOMAIN cycle.snap THEN cycle.snap[s] ELSE Nil
           live      == {s \in updateSelectors : fetch(s) # Nil}
           result(s) == Select(s, state)
           threw     == {s \in live : result(s) = Err}
           fired     == {s \in live \ threw :
                            SelectorChanged(result(s), fetch(s), stamp,
                                            cycle.snapStamp)}
       IN  \E before \in SUBSET (live \ threw) :
               /\ threw = {} => before = live
               /\ cycle' = [cycle EXCEPT
                               !.ok = threw = {},
                               !.selHeard = fired \cap before \cap updateConns]
    /\ pc' = "settle"
    /\ UNCHANGED <<state, stamp, enabled, queue, queueInProgress,
                   middlewareMethods, updateSelectors, updateConns, diffConns,
                   handle, nextId, runLog, diffLog, lastError>>

\* .then((result) => resolve(result)).catch((reason) => reject(reason))
\* (lines 328-329)
Settle ==
    /\ pc = "settle"
    /\ handle' = [handle EXCEPT
                     ![cycle.id] = IF cycle.ok THEN "resolved" ELSE "rejected"]
    /\ pc' = "finally"
    /\ cycle' = [NoCycle EXCEPT !.id = cycle.id, !.ok = cycle.ok]
    /\ UNCHANGED <<state, stamp, enabled, queue, queueInProgress,
                   middlewareMethods, updateSelectors, updateConns, diffConns,
                   nextId, runLog, diffLog, lastError>>

\* A chain that steps the queue from .then only: after a task that failed
\* nothing dequeues the next entry.
FinallyIfResolved ==
    /\ pc = "finally"
    /\ IF cycle.ok
       THEN StepQueue(TRUE, queue)
       ELSE /\ pc' = "stalled"
            /\ UNCHANGED <<queue, queueInProgress, cycle, state, stamp, runLog,
                           diffLog>>
    /\ UNCHANGED <<enabled, middlewareMethods, updateSelectors, updateConns,
                   diffConns, handle, nextId, lastError>>

\* .finally(() => this.stepQueue(true)) (line 330)
Finally ==
    /\ pc = "finally"
    /\ StepQueue(TRUE, queue)
    /\ UNCHANGED <<enabled, middlewareMethods, updateSelectors, updateConns,
                   diffConns, handle, nextId, lastError>>

(***************************************************************************)
(* The rest of the public interface.                                       *)
(***************************************************************************)
\* onUpdate(selector, callback) and onUpdate(callback) (lines 232-250)
OnUpdate(sel) ==
    /\ CanCall
    /\ enabled
    /\ sel \notin updateConns
    /\ updateSelectors' = updateSelectors \cup {sel}
    /\ updateConns' = updateConns \cup {sel}
    /\ UNCHANGED <<state, stamp, enabled, queue, queueInProgress,
                   middlewareMethods, diffConns, pc, cycle, handle, nextId,
                   runLog, diffLog, lastError>>

\* useDiff(executor) (lines 88-90)
UseDiff ==
    /\ CanCall
    /\ ~diffConns
    /\ diffConns' = TRUE
    /\ UNCHANGED <<state, stamp, enabled, queue, queueInProgress,
                   middlewareMethods, updateSelectors, updateConns, pc, cycle,
                   handle, nextId, runLog, diffLog, lastError>>

\* useMiddleware(key, middleware) (lines 72-74)
UseMiddleware(k, mw) ==
    /\ CanCall
    /\ middlewareMethods' =
          [j \in DOMAIN middlewareMethods \cup {k} |->
              IF j = k THEN mw ELSE middlewareMethods[j]]
    /\ middlewareMethods' # middlewareMethods
    /\ UNCHANGED <<state, stamp, enabled, queue, queueInProgress,
                   updateSelectors, updateConns, diffConns, pc, cycle, handle,
                   nextId, runLog, diffLog, lastError>>

\* getState(), getState(key), getState(selector) (lines 266-276)
GetState ==
    /\ CanCall
    /\ lastError' = IF GetStateGuard THEN "none" ELSE "getState"
    /\ UNCHANGED <<state, stamp, enabled, queue, queueInProgress,
                   middlewareMethods, updateSelectors, updateConns, diffConns,
                   pc, cycle, handle, nextId, runLog, diffLog>>

\* cleanup() (lines 283-288): events is empty, updateSignal loses its
\* connections, diffSignal is left as it is.
Cleanup ==
    /\ CanCall
    /\ enabled
    /\ enabled' = FALSE
    /\ updateConns' = {}
    /\ UNCHANGED <<state, stamp, queue, queueInProgress, middlewareMethods,
                   updateSelectors, diffConns, pc, cycle, handle, nextId,
                   runLog, diffLog, lastError>>

Next ==
    \/ \E data \in Payloads : Update(data, FALSE)
    \/ Notify
    \/ Settle
    \/ Finally
    \/ \E sel \in Selectors : OnUpdate(sel)
    \/ UseDiff
    \/ \E k \in MiddlewareKeys, mw \in Middlewares : UseMiddleware(k, mw)
    \/ GetState
    \/ Cleanup

Spec == Init /\ [][Next]_vars

(***************************************************************************)
(* The queue on its own: the same crate driven with one payload that       *)
(* changes a number, one that changes a nested table, one that changes     *)
(* nothing and one whose transformer throws, and with no middleware.       *)
(***************************************************************************)
QueuePayloads ==
    { <<>>, [coins |-> IntV(2)], [coins |-> FnV("boom")],
      [stats |-> MapV([coins |-> FnV("add1")])] }

QueueNext ==
    \/ \E data \in QueuePayloads : Update(data, FALSE)
    \/ Notify
    \/ Settle
    \/ Finally
    \/ \E sel \in Selectors : OnUpdate(sel)
    \/ UseDiff
    \/ GetState
    \/ Cleanup

QueueSpec == Init /\ [][QueueNext]_vars

\* Every step of the promise chain that is due is eventually taken: the
\* scheduler runs every continuation of a settled promise.
QueueFairSpec ==
    QueueSpec /\ WF_vars(Notify) /\ WF_vars(Settle) /\ WF_vars(Finally)

(***************************************************************************)
(* The diff engine on its own: the crate driven with payloads of every     *)
(* shape the diff pass tells apart, a diff listener, and a selector that   *)
(* throws once coins has reached 2; no middleware and no cleanup().        *)
(***************************************************************************)
EngineSelectors == {"coinsBelow2", "statsGems"}

EnginePayloads ==
    { [coins |-> IntV(2)],
      [coins |-> FnV("boom")],
      [stats |-> MapV([coins |-> FnV("add1")])],
      [stats |-> MapV([coins |-> FnV("add5")])],
      [stats |-> MapV([coins |-> FnV("same")])],
      [stats |-> FnV("same")],
      [stats |-> ArrV(<<2>>)],
      [items |-> MapV(<<>>)],
      [coins |-> FnV("drop")],
      [stats |-> MapV([coins |-> FnV("drop")])] }

EngineNext ==
    \/ \E data \in EnginePayloads : Update(data, FALSE)
    \/ Notify
    \/ Settle
    \/ Finally
    \/ \E sel \in EngineSelectors : OnUpdate(sel)
    \/ UseDiff

EngineSpec == Init /\ [][EngineNext]_vars

(***************************************************************************)
(* The tables the crate shares with its callers: the payload of a queued   *)
(* update(), which the caller still holds while the entry waits, and the   *)
(* object the crate was constructed with, which the constructor stores as  *)
(* it is (this.state = state, line 59).                                    *)
(***************************************************************************)
AliasPayloads ==
    { [coins |-> IntV(2)],
      [coins |-> FnV("add1")],
      [stats |-> MapV([gems |-> IntV(1)])] }

\* The caller of the update() behind queue entry j rewrites the table it
\* passed, so that it holds d.
MutatePayload(j, d) ==
    /\ CanCall
    /\ j \in 1..Len(queue)
    /\ d # queue[j].obj
    /\ queue' = [queue EXCEPT ![j].obj = d]
    /\ UNCHANGED <<state, stamp, enabled, queueInProgress, middlewareMethods,
                   updateSelectors, updateConns, diffConns, pc, cycle, handle,
                   nextId, runLog, diffLog, lastError>>

\* The paths of the constructor's argument its owner writes to, and the value
\* written.
InitialPaths == {<<"coins">>, <<"stats", "gems">>}

WrittenValue == IntV(7)

\* The owner of the constructor's argument writes v at path.  this.state is
\* that very table until the first task commits (line 198 then makes a new
\* top-level table), and a nested table of it stays in the state until a
\* commit replaces its key (stamp 0).
MutateInitial(path, v) ==
    /\ CanCall
    /\ IF Len(path) = 1
       THEN /\ runLog = <<>>
            /\ state' = [state EXCEPT !.m[path[1]] = v]
       ELSE /\ path[1] \in DOMAIN state.m
            /\ state.m[path[1]].t = "map"
            /\ stamp[path[1]] = 0
            /\ state' = [state EXCEPT !.m[path[1]].m[path[2]] = v]
    /\ state' # state
    /\ UNCHANGED <<stamp, enabled, queue, queueInProgress, middlewareMethods,
                   updateSelectors, updateConns, diffConns, pc, cycle, handle,
                   nextId, runLog, diffLog, lastError>>

AliasNext ==
    \/ \E data \in AliasPayloads, copy \in BOOLEAN : Update(data, copy)
    \/ \E j \in 1..MaxUpdates, d \in AliasPayloads : MutatePayload(j, d)
    \/ \E path \in InitialPaths : MutateInitial(path, WrittenValue)
    \/ Notify
    \/ Settle
    \/ Finally

AliasSpec == Init /\ [][AliasNext]_vars

(***************************************************************************)
(* The claims.                                                             *)
(***************************************************************************)
RECURSIVE FrameHolds(_, _, _)

\* Every key of the table pre that the diff does not name holds in post what
\* it held in pre, at every depth the diff reaches.
FrameHolds(pre, post, diff) ==
    \A k \in DOMAIN pre.m :
        IF k \notin DOMAIN diff THEN Index(post, k) = pre.m[k]
        ELSE IF diff[k].t = "map" /\ pre.m[k].t = "map"
             THEN FrameHolds(pre.m[k], Index(post, k), diff[k].m)
             ELSE TRUE

\* C1: an update changes the state only at the paths of the diff it emits;
\* every other path, such as a sibling key of a nested table the payload
\* does not mention, holds after the update what it held before.
CE_C1 == pc = "notify" => FrameHolds(cycle.pre, state, cycle.diff)

\* The value a payload entry proposes for a path that now holds cur.
Candidate(v0, cur) == IF v0.t = "fn" THEN CallTransformer(v0.f, cur) ELSE v0

\* The cases in which the specification emits a path whatever its value: a
\* transformer that returns a nested table, and an array/table transition.
ForcedEmission(v0, cur) ==
    \/ v0.t = "fn" /\ Candidate(v0, cur).t = "map"
    \/ Candidate(v0, cur).t = "arr" /\ cur.t = "map"
    \/ Candidate(v0, cur).t = "map" /\ cur.t = "arr"

RECURSIVE DiffMinimal(_, _, _, _)

\* The diff names a path of the tables pre and post exactly when the values
\* at that path differ, forced emissions aside.
DiffMinimal(pre, post, diff, obj) ==
    \A k \in DOMAIN pre.m \cup DOMAIN post.m \cup DOMAIN diff :
        LET a == Index(pre, k)
            b == Index(post, k)
        IN  IF k \in DOMAIN obj /\ ForcedEmission(obj[k], a) THEN TRUE
            ELSE IF k \notin DOMAIN diff THEN a = b
            ELSE IF diff[k].t = "map" /\ a.t = "map" /\ b.t = "map"
                    /\ k \in DOMAIN obj /\ obj[k].t = "map"
                 THEN DiffMinimal(a, b, diff[k].m, obj[k].m)
                 ELSE a # b

\* C3: the diff of an update contains a path if and only if the value at
\* that path after the update differs from its value before, forced
\* emissions aside; a transformer that returns the current number adds no
\* entry.
CE_C3 == pc = "notify" => DiffMinimal(cycle.pre, state, cycle.diff, cycle.data)

\* C4: a listener registered for the selector of stats.coins before an
\* update was called is invoked in that update's cycle if and only if the
\* value at stats.coins changed in the cycle.
CE_C4 ==
    (/\ pc = "settle"
     /\ cycle.ok
     /\ "statsCoins" \in DOMAIN cycle.snap
     /\ "statsCoins" \in updateConns)
    => (("statsCoins" \in cycle.selHeard)
           <=> (Select("statsCoins", cycle.pre) # Select("statsCoins", state)))

\* C5: an update that leaves the state as it was fires neither the diff
\* signal nor any selector or whole-state listener.
CE_C5 ==
    (pc = "settle" /\ cycle.ok /\ cycle.pre = state)
    => (~cycle.changed /\ cycle.selHeard = {})

\* C6: after an update whose payload names a top-level key with a middleware,
\* the key holds middleware(oldValue, c), c being the payload's literal or
\* its transformer's result.
CE_C6 ==
    pc = "notify" =>
        \A k \in DOMAIN cycle.data \cap DOMAIN cycle.mws :
            Index(state, k) =
                CallMiddleware(cycle.mws[k], Index(cycle.pre, k),
                               Candidate(cycle.data[k], Index(cycle.pre, k)))

\* C7: a middleware is only ever invoked for a key at the top level of the
\* payload, never for a key of a nested table.
CE_C7 == \A c \in cycle.calls : c.depth = 0

\* C9: once cleanup() has been called no diff listener and no selector or
\* whole-state listener is invoked, also not by an update that was queued
\* before the call.
CE_C9 ==
    [][~enabled =>
          /\ ~(runLog' # runLog /\ cycle'.diffHeard)
          /\ ~(pc = "notify" /\ pc' = "settle" /\ cycle'.selHeard # {})]_vars

\* The promise of update number i is settled.
Settled(i) == handle[i] \in {"resolved", "rejected"}

C2Order ==
    /\ runLog = [i \in 1..Len(runLog) |-> i]
    /\ \A j \in 1..Len(queue) : queue[j].id = Len(runLog) + j
    /\ pc # "idle" => \A a \in 1..(cycle.id - 1) : Settled(a)
    /\ \A i, j \in 1..Len(diffLog) : i < j => diffLog[i] < diffLog[j]
    /\ cycle.changed => diffLog[Len(diffLog)] = cycle.id

C2Step ==
    /\ runLog' # runLog => cycle'.pre = state
    /\ state' # state => runLog' # runLog

\* C2: tasks run in the order of the update() calls; a task starts only
\* when every earlier one has completed, it computes its diff against the
\* state the earlier ones committed, and diffs are fired in call order.
Thm_C2 == []C2Order /\ [][C2Step]_vars

\* Two diffs were fired in order, the second computed on the state the first
\* committed, while a third update waits in the queue.
Wit_C2 ==
    /\ pc = "notify"
    /\ cycle.id = 2
    /\ diffLog = <<1, 2>>
    /\ cycle.pre # InitState
    /\ Len(queue) = 1

\* C8: after cleanup() every update() fails without a queue entry, every
\* getState() fails, and the crate never becomes enabled again.
Thm_C8 ==
    [][~enabled =>
          /\ ~enabled'
          /\ nextId' = nextId
          /\ Len(queue') <= Len(queue)
          /\ \A i \in 1..MaxUpdates : handle[i] = "none" => handle'[i] = "none"
          /\ lastError' # lastError => lastError' \in {"update", "getState"}]_vars

\* update() was called on a disposed crate that still had a task pending,
\* and failed.
Wit_C8 ==
    /\ ~enabled
    /\ lastError = "update"
    /\ nextId <= MaxUpdates
    /\ pc # "idle"

\* C10: every update enqueued has its task run and its promise settled; a
\* task that fails does not keep a later entry from running.
Thm_C10 ==
    \A i \in 1..MaxUpdates :
        (handle[i] = "pending")
            ~> (Settled(i) /\ \E j \in 1..Len(runLog) : runLog[j] = i)

\* The first task failed and the second, queued behind it, ran and resolved.
Wit_C10 ==
    /\ handle[1] = "rejected"
    /\ handle[2] = "resolved"
    /\ runLog = <<1, 2>>

\* C11: a task that throws rejects its own promise only and leaves no trace
\* in the state: the updates behind it are applied as if the failing update
\* had never been submitted.
CE_C11 ==
    (pc = "settle" /\ ~cycle.ok) => (state = cycle.pre /\ ~cycle.changed)

C12Step ==
    /\ runLog' # runLog => pc \in {"idle", "finally"}
    /\ (pc \in {"notify", "settle"} /\ nextId' # nextId
          /\ handle'[nextId] = "pending")
       => /\ Len(queue') = Len(queue) + 1
          /\ queue'[Len(queue')].id = nextId
          /\ runLog' = runLog
          /\ cycle' = cycle
          /\ state' = state

\* C12: at most one task is computed or applied at a time; an update() called
\* from a listener while a task is running is only enqueued, and no task
\* starts before the running one has completed.
Thm_C12 == [](pc \in {"notify", "settle"} => queueInProgress) /\ [][C12Step]_vars

\* The first update's task is firing its diff, and the update() its diff
\* listener called is waiting in the queue.
Wit_C12 ==
    /\ pc = "notify"
    /\ cycle.id = 1
    /\ cycle.diffHeard
    /\ Len(queue) = 1
    /\ handle[2] = "pending"

\* update({stats: {coins: (v) => v + 1}})
AddOne == [stats |-> MapV([coins |-> FnV("add1")])]

\* C13: a transformer of a queued update is invoked with the value its path
\* holds when the entry is dequeued, after every earlier update has
\* committed: each queued (v) => v + 1 raises stats.coins by exactly 1.
Thm_C13 ==
    (pc = "notify" /\ cycle.data = AddOne)
    => Select("statsCoins", state) = IntV(Select("statsCoins", cycle.pre).n + 1)

\* The third of three (v) => v + 1 updates: called when stats.coins was 1,
\* dequeued when it was 2, and it left 3.
Wit_C13 ==
    /\ pc = "notify"
    /\ cycle.id = 3
    /\ cycle.data = AddOne
    /\ "statsCoins" \in DOMAIN cycle.snap
    /\ cycle.snap["statsCoins"] = IntV(1)
    /\ Select("statsCoins", cycle.pre) = IntV(2)
    /\ Select("statsCoins", state) = IntV(3)

\* update({stats: {coins: (v) => v + 5}})
AddFive == [stats |-> MapV([coins |-> FnV("add5")])]

\* The first (stats.coins is 0) or second (stats.coins is 5) of the two
\* sequential calls is being applied.
AddFiveRuns ==
    /\ pc = "notify"
    /\ cycle.data = AddFive
    /\ Select("statsCoins", cycle.pre) \in {IntV(0), IntV(5)}

\* C14, as amended: from stats.coins = 0, two sequential updates
\* {stats: {coins: (v) => v + 5}} leave 10 and fire the diff signal once
\* each; a diff carries the new value of coins, 5 and then 10.
Thm_C14 ==
    AddFiveRuns =>
        /\ cycle.changed
        /\ diffLog[Len(diffLog)] = cycle.id
        /\ Select("statsCoins", state)
              = IntV(Select("statsCoins", cycle.pre).n + 5)
        /\ cycle.diff = [stats |-> MapV([coins |-> Select("statsCoins", state)])]

\* C14, as stated: the two firings carry 5 and then 5 for coins.
CE_C14 ==
    AddFiveRuns =>
        /\ cycle.changed
        /\ cycle.diff = [stats |-> MapV([coins |-> IntV(5)])]

\* The second of the two calls has committed 10 and its diff is the second
\* one fired.
Wit_C14 ==
    /\ AddFiveRuns
    /\ cycle.id = 2
    /\ Select("statsCoins", cycle.pre) = IntV(5)
    /\ Select("statsCoins", state) = IntV(10)
    /\ diffLog = <<1, 2>>

\* A crate without middleware whose state is st calls update(d) while its
\* queue is idle: the state it holds afterwards.
ReplicaUpdate(st, d) ==
    One({ IF r.err THEN st ELSE Commit(st, r.diff) :
            r \in {Apply(d, DefaultLevel, 0, TaskPointer(st), st, <<>>)} })

\* C15: a second crate that starts from the same state and calls update(d)
\* for every diff d the first crate fires holds the first crate's state
\* after each diff; here for the first diff fired, which the replica applies
\* to the state both crates were constructed with.
CE_C15 ==
    (pc = "notify" /\ cycle.changed /\ diffLog = <<cycle.id>>)
    => ReplicaUpdate(InitState, cycle.diff) = state

\* While the diff signal of a cycle is being fired, and until the selector
\* loop has run, the state is the committed one, the diff of the cycle has
\* been fired once if the cycle changed anything and not at all otherwise,
\* and no selector listener of the cycle has been invoked.
C16Order ==
    pc = "notify" =>
        /\ state = Commit(cycle.pre, cycle.diff)
        /\ cycle.selHeard = {}
        /\ Cardinality({j \in 1..Len(diffLog) : diffLog[j] = cycle.id})
              = IF cycle.changed THEN 1 ELSE 0

\* A diff is fired in the step that commits, and selector listeners are
\* invoked in a later step that leaves the state and the diffs alone.
C16Step ==
    /\ diffLog' # diffLog
          => (state' = Commit(state, cycle'.diff) /\ cycle'.selHeard = {})
    /\ (cycle'.selHeard # {} /\ cycle'.selHeard # cycle.selHeard)
          => (pc = "notify" /\ state' = state /\ diffLog' = diffLog)

\* C16: in a cycle that changed the state the new state is committed, then
\* the diff signal fires once, then the selectors are evaluated again and
\* their listeners invoked; a getState() from a diff listener reads the
\* committed state.
Thm_C16 == []C16Order /\ [][C16Step]_vars

\* A diff listener is running on a changed state while a selector listener
\* whose value the update changed has yet to be invoked.
Wit_C16 ==
    /\ pc = "notify"
    /\ cycle.diffHeard
    /\ state # cycle.pre
    /\ "statsCoins" \in updateConns
    /\ "statsCoins" \in DOMAIN cycle.snap
    /\ cycle.snap["statsCoins"] # Select("statsCoins", state)

\* C17: update(payload, true) is applied from the deep copy taken at the
\* call: when the entry is dequeued the task goes through the payload as it
\* was at the call, whatever the caller has written to its table since, and
\* the caller's table is left as the caller made it.
Thm_C17 ==
    [][/\ (pc = "finally" /\ runLog' # runLog /\ Head(queue).copy)
          => /\ cycle'.data = Head(queue).data
             /\ cycle'.objAfter = Head(queue).obj
             /\ ReplicaUpdate(state, Head(queue).data) = state'
       /\ (pc = "idle" /\ runLog' # runLog /\ cycle'.copy)
          => cycle'.objAfter = cycle'.data]_vars

\* A copied update has been applied and has changed the state although the
\* caller had rewritten its table while the entry waited; the table is as
\* the caller left it.
Wit_C17 ==
    /\ pc = "notify"
    /\ cycle.copy
    /\ cycle.changed
    /\ cycle.objAfter # cycle.data

\* C18: the crate owns a deep copy of the constructor's argument: the state
\* getState() reads changes only when a task of the crate commits.
CE_C18 ==
    [][state' # state
          => (runLog' # runLog /\ state' = Commit(state, cycle'.diff))]_vars

\* C19: the snapshot an update's selector comparison uses holds, for every
\* registered selector, its value on the state just before the update's
\* task is applied, also when earlier entries have changed the state since
\* update() was called.
CE_C19 ==
    pc = "notify" =>
        \A sel \in DOMAIN cycle.snap : cycle.snap[sel] = Select(sel, cycle.pre)

\* C20: when a transformer of the payload returns a nested table, its path
\* counts as changed and is in the diff, also when the table returned equals
\* the current value.
CE_C20 ==
    pc = "notify" =>
        \A k \in DOMAIN cycle.data :
            (/\ cycle.data[k].t = "fn"
             /\ Candidate(cycle.data[k], Index(cycle.pre, k)).t = "map")
            => (cycle.changed /\ k \in DOMAIN cycle.diff)

\* One of the candidate c and the current value cur is an array and the other
\* a dictionary; the empty table counts as a dictionary.
ShapeTransition(c, cur) ==
    \/ c.t = "arr" /\ cur.t = "map"
    \/ c.t = "map" /\ cur.t = "arr"

\* C21: when the candidate at a path is an array and the current value a
\* nested table, or the other way round, empty tables included, the update
\* emits the candidate at that path and overwrites the state with it.
CE_C21 ==
    pc = "notify" =>
        \A k \in DOMAIN cycle.data :
            ShapeTransition(cycle.data[k], Index(cycle.pre, k))
            => /\ k \in DOMAIN cycle.diff
               /\ cycle.diff[k] = cycle.data[k]
               /\ Index(state, k) = cycle.data[k]

RECURSIVE NoEmptyBranch(_)

\* No key of the diff d holds nil or an empty table, at any depth.
NoEmptyBranch(d) ==
    \A k \in DOMAIN d :
        /\ d[k] # Nil
        /\ d[k].t = "map" => (d[k].m # <<>> /\ NoEmptyBranch(d[k].m))

\* C22: a diff handed to the diff signal is not empty and holds no empty
\* nested table and no absent value at any depth: a nested branch without
\* changes is left out of its parent.
CE_C22 ==
    (pc = "notify" /\ cycle.changed)
    => (cycle.diff # <<>> /\ NoEmptyBranch(cycle.diff))

\* C23: a selector listener is not invoked in a cycle in which the
\* selector's value is nil in the snapshot or on the new state: no listener
\* is handed nil.
CE_C23 ==
    pc = "settle" =>
        \A sel \in cycle.selHeard :
            cycle.snap[sel] # Nil /\ Select(sel, state) # Nil

\* The selectors with a listener whose value differs, on the state the
\* cycle committed, from the cycle's snapshot.
ChangedSelectors ==
    {sel \in updateConns \cap DOMAIN cycle.snap :
        /\ cycle.snap[sel] \notin {Nil, Err}
        /\ Select(sel, state) # Err
        /\ SelectorChanged(Select(sel, state), cycle.snap[sel], stamp,
                           cycle.snapStamp)}

C24Step ==
    /\ (pc = "notify" /\ pc' = "settle")
       => (cycle'.ok /\ ChangedSelectors \subseteq cycle'.selHeard)
    /\ nextId' # nextId => handle'[nextId] = "pending"

\* C24: a selector that throws while it is evaluated for an update, at the
\* snapshot or at the re-evaluation, counts as unchanged: the update is
\* accepted and its task succeeds, and every other selector whose value
\* changed in the cycle has its listener fired.
CE_C24 == [][C24Step]_vars

C25Step ==
    \A i \in 1..MaxUpdates :
        (handle[i] # "rejected" /\ handle'[i] = "rejected")
        => IF i = cycle.id /\ pc = "settle"
           THEN /\ state = cycle.pre
                /\ ~cycle.diffHeard
                /\ cycle.selHeard = {}
           ELSE state' = state /\ diffLog' = diffLog

\* C25: when the handle of an update rejects, the state is the one from
\* before that update's task began and neither the diff channel nor a
\* selector listener was fired for that update.
CE_C25 == [][C25Step]_vars

\* C26: whenever no task is executing and no continuation of a task is
\* pending, the in-progress flag is false and the queue is empty; and
\* whenever the queue holds an entry the in-progress flag is true.
Thm_C26 ==
    /\ pc = "idle" => (~queueInProgress /\ queue = <<>>)
    /\ queue # <<>> => queueInProgress

\* Every update has been through the queue, its task has run and its promise
\* is settled, and the crate is at rest again.
Wit_C26 ==
    /\ pc = "idle"
    /\ Len(runLog) = MaxUpdates
    /\ \A i \in 1..MaxUpdates : handle[i] \in {"resolved", "rejected"}
    /\ ~queueInProgress
    /\ queue = <<>>

====
